---- MODULE Spec2Model ----
(***************************************************************************)
(* Model of the stream-acquisition logic of streamlink-gui (src/app.py):   *)
(* the StreamRunner worker thread (QThread), the playback process it       *)
(* drives (QProcess), the queued stream_status signal, and the observer    *)
(* StreamButton._stream_handler running on the GUI thread, including the   *)
(* nested event loops of the modal dialogs it opens with exec().           *)
(*                                                                         *)
(* Time is a discrete clock `now`; time.time() reads it, time.sleep(w)     *)
(* returns once the clock has advanced by at least w.                      *)
(***************************************************************************)
EXTENDS Integers, Sequences, FiniteSets, TLC

(* ---- bounds of the model ---- *)
MaxTime == 3        \* the clock stops ticking here
MaxWait == 2        \* wait intervals 1..MaxWait
MaxTimeout == 1     \* overall timeouts 1..MaxTimeout
MaxLaunches == 3    \* process starts over all runs
MaxClicks == 2      \* clicks on the stream button
MaxEntries == 2     \* entries of the JSON list read at start-up
MaxUrlLen == 3      \* pieces of the text typed into the Play field
MaxPlays == 2       \* clicks on the Play button
MaxAdds == 2        \* new-stream dialogs answered with Ok

(* ---- StreamRunner states communicated over stream_status ---- *)
STARTING == 0
RUNNING == 1
NO_STREAM == 2
FINISHED == 3

SecondsPerMinute == 60

VARIABLES
    now,          \* wall clock (time.time())
    wait,         \* StreamRunner._wait
    timeout,      \* StreamButton._timeout
    pc,           \* position of the worker thread in StreamRunner.run
    stop,         \* StreamRunner._stop
    start_time,   \* StreamRunner._start_time
    wakeAt,       \* end of the current time.sleep
    alive,        \* playback processes currently running (attempt numbers)
    launches,     \* number of QProcess.start() calls so far
    clicks,       \* number of StreamButton.click_action calls so far
    queue,        \* stream_status emissions queued for the GUI thread
    run_status,   \* StreamButton._run_status: 0 or a StopRunnerDialog (its number)
    dialogs,      \* number of StopRunnerDialogs created so far
    openDlgs,     \* StopRunnerDialogs currently shown
    time_left,    \* StopRunnerDialog._time_left of the latest dialog
    stack,        \* GUI thread: handler invocations blocked in a dialog's exec()
    trace,        \* history: signals emitted by the current run, in order
    outcomes,     \* history: classified outcomes of the current run's attempts
    runStart,     \* history: clock value when the current run began
    lastCheck,    \* history: the latest deadline check of the handler
    cancel,       \* history: the user's abort of the current run, if any
    stopCalls,    \* history: number of stop() calls since the current run began
    reports,      \* history: give-up failures reported since the current run began
    stopReq,      \* history: stop() was called since the thread was last started
    nsHandled,    \* history: NO_STREAM notifications handled since the last STARTING
    pending,      \* JSONConnection: entries of the JSON list not yet parsed
    streams,      \* JSONConnection._streams
    plays,        \* clicks on the Play button so far
    shown,        \* history: ErrorDialogs shown for descriptors that did not parse
    unresolved,   \* history: descriptors that did not parse
    runStream,    \* the stream of the runner whose thread was started last
    runPhase,     \* how far that thread's run() got: "none", "loop", "AttributeError"
    procArgs,     \* the arguments set on that runner's QProcess
    adds,         \* new-stream dialogs answered with Ok so far
    saved,        \* the JSON list last written by JSONConnection.finish
    closed,       \* the main window was closed and the list saved
    layout        \* the grid computed by MainWindow._set_layout

runnerVars == <<pc, stop, start_time, wakeAt, alive, launches>>
guiVars == <<run_status, dialogs, openDlgs, time_left, stack>>
histVars == <<trace, outcomes, runStart, lastCheck, cancel, stopCalls,
              reports, stopReq, nsHandled>>
appVars == <<now, wait, timeout, pc, stop, start_time, wakeAt, alive, launches,
             clicks, queue, run_status, dialogs, openDlgs, time_left, stack,
             trace, outcomes, runStart, lastCheck, cancel, stopCalls,
             reports, stopReq, nsHandled>>
dataVars == <<pending, streams, plays, shown, unresolved,
              runStream, runPhase, procArgs>>
regVars == <<adds, saved, closed, layout>>
vars == <<appVars, dataVars, regVars>>

None == [kind |-> "none"]

(* Tokens of a finished attempt's captured standard output:                *)
(* e = it contains "error", s = it contains "Starting player".             *)
Outputs == [e : BOOLEAN, s : BOOLEAN]

(* ---- pure helpers ---- *)

\* run(), lines 229-233: which branch the captured output takes.
Classify(data) ==
    IF data.e THEN "Unavailable"
    ELSE IF data.s THEN "Live"
    ELSE "Error"

\* StreamRunner.stop: the value _stop has after the call.
Stop_toggles(s) == ~s
Stop(s) == TRUE

\* `while not self._stop`: whether the loop body is entered.
LoopContinues_always(s) == TRUE
LoopContinues(s) == ~s

\* QProcess.waitForFinished(-1): returns once the process has exited (or
\* never started).
WaitForFinishedReturns_early(procs) == TRUE
WaitForFinishedReturns(procs) == procs = {}

\* QProcess.start(): spawns the program unless this QProcess is running.
ProcessStart(procs, id) == IF procs = {} THEN {id} ELSE procs

\* QThread.start() as used by click_action: starts run() on a thread that is
\* not running, does nothing on one that is.
QThreadStart_restarts(p) == "init"
QThreadStart(p) == IF p = "idle" THEN "init" ELSE p

\* _stream_handler line 328.
TryUntil_from_now(st, T, t) == t + T
TryUntil(st, T, t) == st + T

\* _stream_handler line 334.
DeadlinePassed_strict(try_until, t) == try_until < t
DeadlinePassed(try_until, t) == try_until <= t

\* int(value / 60): division truncating towards zero.
TimeLeft(value) ==
    IF value >= 0 THEN value \div SecondsPerMinute
    ELSE -((-value) \div SecondsPerMinute)

\* a test that would never recognise the stored dialog
IsDialog_never(rs) == FALSE

IsDialog(rs) == rs # 0

Top == stack[Len(stack)]
Rest == SubSeq(stack, 1, Len(stack) - 1)

\* dispatch that would not wait for a closed dialog's exec() to return
GuiDispatching_always == TRUE

\* The GUI thread dispatches events when it is in the main loop or in the
\* event loop of the modal dialog on top, as long as that dialog is shown.
GuiDispatching ==
    IF stack = <<>> THEN TRUE
    ELSE IF Top.kind = "error" THEN TRUE
    ELSE Top.dlg \in openDlgs

(* ---- initial state: after StreamButton.__init__ ---- *)
InitApp ==
    /\ now = 0
    /\ wait \in 1..MaxWait
    /\ timeout \in 1..MaxTimeout
    /\ pc = "idle"
    /\ stop = FALSE
    /\ start_time = 0
    /\ wakeAt = 0
    /\ alive = {}
    /\ launches = 0
    /\ clicks = 0
    /\ queue = <<>>
    /\ run_status = 0
    /\ dialogs = 0
    /\ openDlgs = {}
    /\ time_left = 0
    /\ stack = <<>>
    /\ trace = <<>>
    /\ outcomes = <<>>
    /\ runStart = 0
    /\ lastCheck = None
    /\ cancel = None
    /\ stopCalls = 0
    /\ reports = 0
    /\ stopReq = FALSE
    /\ nsHandled = 0

\* the data side at rest: nothing to parse, no stream registered
InitDataIdle ==
    /\ pending = <<>>
    /\ streams = <<>>
    /\ plays = 0
    /\ shown = 0
    /\ unresolved = 0
    /\ runStream = None
    /\ runPhase = "none"
    /\ procArgs = <<>>

\* no window yet, nothing saved
InitRegIdle ==
    /\ adds = 0
    /\ saved = <<>>
    /\ closed = FALSE
    /\ layout = [kind |-> "unbuilt"]

Init == InitApp /\ InitDataIdle /\ InitRegIdle

(* ---- the clock ---- *)
Tick ==
    /\ UNCHANGED <<dataVars, regVars>>
    /\ now < MaxTime
    /\ now' = now + 1
    /\ UNCHANGED <<wait, timeout, runnerVars, clicks, queue, guiVars, histVars>>

(* ---- StreamButton.click_action: self._runner.start() ---- *)
Click ==
    /\ UNCHANGED <<dataVars, regVars>>
    /\ stack = <<>>              \* no modal dialog blocks the button
    /\ clicks < MaxClicks
    /\ clicks' = clicks + 1
    /\ pc' = QThreadStart(pc)
    /\ stopReq' = IF pc = "idle" THEN FALSE ELSE stopReq
    /\ UNCHANGED <<now, wait, timeout, stop, start_time, wakeAt, alive, launches,
                   queue, guiVars, trace, outcomes, runStart, lastCheck, cancel,
                   stopCalls, reports, nsHandled>>

(* ---- StreamRunner.run, lines 218-223 ---- *)
RunBegin ==
    /\ UNCHANGED <<dataVars, regVars>>
    /\ pc = "init"
    /\ stop' = FALSE
    /\ start_time' = now
    /\ queue' = Append(queue, STARTING)
    /\ alive' = {}               \* a fresh QProcess replaces the old one
    /\ pc' = "loop"
    /\ trace' = <<STARTING>>
    /\ outcomes' = <<>>
    /\ runStart' = now
    /\ cancel' = None
    /\ stopCalls' = 0
    /\ reports' = 0
    /\ UNCHANGED <<now, wait, timeout, wakeAt, launches, clicks, guiVars, lastCheck,
                   stopReq, nsHandled>>

(* ---- run, lines 224-226: loop entered, process started ---- *)
Launch ==
    /\ UNCHANGED <<dataVars, regVars>>
    /\ pc = "loop"
    /\ LoopContinues(stop)
    /\ launches < MaxLaunches
    /\ launches' = launches + 1
    /\ alive' = ProcessStart(alive, launches + 1)
    /\ queue' = Append(queue, RUNNING)
    /\ trace' = Append(trace, RUNNING)
    /\ pc' = "waiting"
    /\ UNCHANGED <<now, wait, timeout, stop, start_time, wakeAt, clicks, guiVars,
                   outcomes, runStart, lastCheck, cancel, stopCalls,
                   reports, stopReq, nsHandled>>

(* ---- run, lines 224 and 235: loop left, thread finishes ---- *)
Finish ==
    /\ UNCHANGED <<dataVars, regVars>>
    /\ pc = "loop"
    /\ ~LoopContinues(stop)
    /\ queue' = Append(queue, FINISHED)
    /\ trace' = Append(trace, FINISHED)
    /\ pc' = "idle"
    /\ UNCHANGED <<now, wait, timeout, stop, start_time, wakeAt, alive, launches,
                   clicks, guiVars, outcomes, runStart, lastCheck, cancel, stopCalls,
                   reports, stopReq, nsHandled>>

(* ---- the playback process exits (or failed to start) ---- *)
ProcExit ==
    /\ UNCHANGED <<dataVars, regVars>>
    /\ \E p \in alive : alive' = alive \ {p}
    /\ UNCHANGED <<now, wait, timeout, pc, stop, start_time, wakeAt, launches,
                   clicks, queue, guiVars, histVars>>

(* ---- run, lines 227-234: wait returns, output classified, sleep begins ---- *)
AttemptDone ==
    /\ UNCHANGED <<dataVars, regVars>>
    /\ pc = "waiting"
    /\ WaitForFinishedReturns(alive)
    /\ \E data \in Outputs :
        LET o == Classify(data) IN
        /\ outcomes' = Append(outcomes, o)
        /\ CASE o = "Unavailable" ->
                  /\ queue' = Append(queue, NO_STREAM)
                  /\ trace' = Append(trace, NO_STREAM)
                  /\ UNCHANGED <<stop, stopCalls, stopReq>>
             [] o = "Live" ->
                  /\ queue' = Append(queue, FINISHED)
                  /\ trace' = Append(trace, FINISHED)
                  /\ stop' = Stop(stop)
                  /\ stopCalls' = stopCalls + 1
                  /\ stopReq' = TRUE
             [] OTHER ->
                  UNCHANGED <<queue, trace, stop, stopCalls, stopReq>>
    /\ wakeAt' = now + wait
    /\ pc' = "sleep"
    /\ UNCHANGED <<now, wait, timeout, start_time, alive, launches, clicks, guiVars,
                   runStart, lastCheck, cancel, reports, nsHandled>>

(* ---- run, line 234: time.sleep(self._wait) returns ---- *)
Wake ==
    /\ UNCHANGED <<dataVars, regVars>>
    /\ pc = "sleep"
    /\ now >= wakeAt
    /\ pc' = "loop"
    /\ UNCHANGED <<now, wait, timeout, stop, start_time, wakeAt, alive, launches,
                   clicks, queue, guiVars, histVars>>

(* ---- _stream_handler lines 334-346, for a handler that read the clock at t
        and computed try_until; `below` is the call stack under it ---- *)
DeadlineCheck(t, try_until, st, below) ==
    /\ lastCheck' = [kind |-> "check", at |-> t, start |-> st,
                     try_until |-> try_until,
                     gaveUp |-> DeadlinePassed(try_until, t)]
    /\ IF DeadlinePassed(try_until, t)
       THEN /\ openDlgs' = IF IsDialog(run_status)
                           THEN openDlgs \ {run_status} ELSE openDlgs
            /\ stop' = Stop(stop)
            /\ stopCalls' = stopCalls + 1
            /\ stopReq' = IF pc = "idle" THEN stopReq ELSE TRUE
            /\ reports' = reports + 1
            /\ stack' = Append(below, [kind |-> "error", dlg |-> 0, at |-> 0,
                                       start |-> 0, try_until |-> 0])
            /\ UNCHANGED time_left
       ELSE /\ time_left' = IF IsDialog(run_status)
                            THEN TimeLeft(try_until - t) ELSE time_left
            /\ stack' = below
            /\ UNCHANGED <<openDlgs, stop, stopCalls, stopReq, reports>>

(* ---- _stream_handler, case STARTING ---- *)
HandleStarting ==
    /\ UNCHANGED <<dataVars, regVars>>
    /\ GuiDispatching
    /\ queue # <<>> /\ Head(queue) = STARTING
    /\ queue' = Tail(queue)
    /\ run_status' = 0
    /\ nsHandled' = 0
    /\ UNCHANGED <<now, wait, timeout, runnerVars, clicks, dialogs, openDlgs,
                   time_left, stack, trace, outcomes, runStart, lastCheck, cancel,
                   stopCalls, reports, stopReq>>

(* ---- _stream_handler, value RUNNING: no case matches ---- *)
HandleRunning ==
    /\ UNCHANGED <<dataVars, regVars>>
    /\ GuiDispatching
    /\ queue # <<>> /\ Head(queue) = RUNNING
    /\ queue' = Tail(queue)
    /\ UNCHANGED <<now, wait, timeout, runnerVars, clicks, guiVars, histVars>>

(* ---- _stream_handler, case NO_STREAM, up to the deadline check or exec() ---- *)
HandleNoStream ==
    /\ UNCHANGED <<dataVars, regVars>>
    /\ GuiDispatching
    /\ queue # <<>> /\ Head(queue) = NO_STREAM
    /\ queue' = Tail(queue)
    /\ nsHandled' = nsHandled + 1
    /\ LET try_until == TryUntil(start_time, timeout, now) IN
       IF run_status = 0
       THEN /\ dialogs' = dialogs + 1
            /\ run_status' = dialogs + 1
            /\ openDlgs' = openDlgs \cup {dialogs + 1}
            /\ time_left' = TimeLeft(try_until - now)
            /\ stack' = Append(stack, [kind |-> "dialog", dlg |-> dialogs + 1,
                                       at |-> now, start |-> runStart,
                                       try_until |-> try_until])
            /\ UNCHANGED <<stop, stopCalls, lastCheck, stopReq, reports>>
       ELSE /\ DeadlineCheck(now, try_until, runStart, stack)
            /\ UNCHANGED <<run_status, dialogs>>
    /\ UNCHANGED <<now, wait, timeout, pc, start_time, wakeAt, alive, launches,
                   clicks, trace, outcomes, runStart, cancel>>

(* ---- _stream_handler, case FINISHED ---- *)
HandleFinished ==
    /\ UNCHANGED <<dataVars, regVars>>
    /\ GuiDispatching
    /\ queue # <<>> /\ Head(queue) = FINISHED
    /\ queue' = Tail(queue)
    /\ openDlgs' = IF IsDialog(run_status) THEN openDlgs \ {run_status} ELSE openDlgs
    /\ run_status' = 0
    /\ UNCHANGED <<now, wait, timeout, runnerVars, clicks, dialogs, time_left,
                   stack, histVars>>

(* ---- StopRunnerDialog._abort: the user presses Abort ---- *)
Abort ==
    /\ UNCHANGED <<dataVars, regVars>>
    /\ stack # <<>>
    /\ Top.kind = "dialog"
    /\ Top.dlg \in openDlgs
    /\ stop' = Stop(stop)
    /\ stopCalls' = stopCalls + 1
    /\ stopReq' = IF pc = "idle" THEN stopReq ELSE TRUE
    /\ openDlgs' = openDlgs \ {Top.dlg}
    /\ cancel' = [kind |-> "abort", at |-> now, pc |-> pc, procs |-> alive,
                  events |-> Len(trace)]
    /\ UNCHANGED <<now, wait, timeout, pc, start_time, wakeAt, alive, launches,
                   clicks, queue, run_status, dialogs, time_left, stack,
                   trace, outcomes, runStart, lastCheck, reports, nsHandled>>

(* ---- the StopRunnerDialog's exec() returns; the handler goes on at line 334
        with the clock value it read before the dialog opened ---- *)
ResumeDialog ==
    /\ UNCHANGED <<dataVars, regVars>>
    /\ stack # <<>>
    /\ Top.kind = "dialog"
    /\ Top.dlg \notin openDlgs
    /\ DeadlineCheck(Top.at, Top.try_until, Top.start, Rest)
    /\ UNCHANGED <<now, wait, timeout, pc, start_time, wakeAt, alive, launches,
                   clicks, queue, run_status, dialogs, trace, outcomes, runStart,
                   cancel, nsHandled>>

(* ---- the user closes the ErrorDialog; its exec() and the handler return ---- *)
CloseError ==
    /\ UNCHANGED <<dataVars, regVars>>
    /\ stack # <<>>
    /\ Top.kind = "error"
    /\ stack' = Rest
    /\ UNCHANGED <<now, wait, timeout, runnerVars, clicks, queue, run_status,
                   dialogs, openDlgs, time_left, histVars>>

Next ==
    \/ Tick
    \/ Click
    \/ RunBegin
    \/ Launch
    \/ Finish
    \/ ProcExit
    \/ AttemptDone
    \/ Wake
    \/ HandleStarting
    \/ HandleRunning
    \/ HandleNoStream
    \/ HandleFinished
    \/ Abort
    \/ ResumeDialog
    \/ CloseError

Spec == Init /\ [][Next]_vars

(***************************************************************************)
(* The data side: src/data/__init__.py, the Play button and the start of   *)
(* a runner for a registered stream.                                       *)
(*                                                                         *)
(* A text is a sequence of pieces; a piece is a word without separators,   *)
(* or one of the separators "/" and "@".  str.lower() maps the piece       *)
(* "Twitch" to "twitch"; every other piece is in lower case already.       *)
(* Spec above follows the loop of run() from the point where the           *)
(* arguments of the process have been set; SpecData follows run() up to    *)
(* that point for the streams the application registers.                   *)
(***************************************************************************)
ButtonsPerRow == 5

Pieces == {"Twitch", "youtube", "/", "@", "a"}
Urls == UNION {[1..n -> Pieces] : n \in 0..MaxUrlLen}

Lower(c) == IF c = "Twitch" THEN "twitch" ELSE c
LowerText(u) == [i \in DOMAIN u |-> Lower(u[i])]
Contains(u, tok) == \E i \in DOMAIN u : u[i] = tok

\* u.split(sep)[-1]: what follows the last separator, u itself without one
SplitLast(u, sep) ==
    LET idx == {i \in DOMAIN u : u[i] = sep} IN
    IF idx = {} THEN u
    ELSE LET last == CHOOSE i \in idx : \A j \in idx : j <= i
         IN SubSeq(u, last + 1, Len(u))

ParseError == [kind |-> "ParseError"]
AttributeError == [kind |-> "AttributeError"]

\* Source.from_string: the enum value whose text is str_val.lower()
SourceValues == {"twitch", "youtube"}
SourceFromString(str_val) ==
    IF Lower(str_val) \in SourceValues THEN Lower(str_val) ELSE "UnsupportedError"

\* Source.URI_root
URI_root(source) ==
    IF source = "twitch" THEN <<"twitch.tv/">> ELSE <<"youtube.com/">>

\* RegisteredStream.from_config on a dict, modelled as a function of its keys
FromConfig(config) ==
    IF "stream_name" \notin DOMAIN config \/ "source" \notin DOMAIN config
    THEN ParseError
    ELSE IF SourceFromString(config["source"]) = "UnsupportedError"
    THEN ParseError
    ELSE [kind |-> "stream",
          display_name |-> IF "display_name" \in DOMAIN config
                           THEN config["display_name"]
                           ELSE config["stream_name"],
          source |-> SourceFromString(config["source"]),
          stream_name |-> config["stream_name"],
          icon |-> IF "icon" \in DOMAIN config THEN config["icon"] ELSE <<>>]

\* RegisteredStream.from_url(url) with display_name and icon_path left None
FromUrl(url) ==
    LET u == LowerText(url) IN
    IF Contains(u, "twitch")
    THEN FromConfig([stream_name |-> SplitLast(u, "/"), source |-> "twitch",
                     display_name |-> SplitLast(u, "/")])
    ELSE IF Contains(u, "youtube")
    THEN FromConfig([stream_name |-> SplitLast(u, "@"), source |-> "youtube",
                     display_name |-> SplitLast(u, "@")])
    ELSE ParseError

\* RegisteredStream.full_URI
full_URI(st) == URI_root(st.source) \o st.stream_name

\* attribute lookup on a RegisteredStream: its four fields and its property
StreamAttributes == {"display_name", "source", "stream_name", "icon", "full_URI"}
GetAttr(st, name) ==
    IF name \notin StreamAttributes THEN AttributeError
    ELSE IF name = "full_URI" THEN full_URI(st)
    ELSE st[name]

\* the attribute run() reads for the first argument of the process
ArgumentAttribute == "full_URL"

\* MainWindow._set_layout: number of button rows for n streams
NRows(n) == (n \div ButtonsPerRow) + (IF n % ButtonsPerRow > 0 THEN 1 ELSE 0)

\* the main window exists once the JSON list is parsed and the layout is
\* computed, which divides by the number of rows
WindowBuilt == pending = <<>> /\ NRows(Len(streams)) # 0

\* entries of the JSON file: dicts with or without the required keys
Names == {<<"a">>}
SourceTexts == {"twitch", "Twitch", "youtube", "vimeo"}
Entries ==
    {[stream_name |-> n, source |-> x] : n \in Names, x \in SourceTexts}
    \cup {[stream_name |-> n] : n \in Names}
    \cup {[source |-> x] : x \in SourceTexts}

InitData ==
    /\ InitApp
    /\ wait = 1
    /\ timeout = 1
    /\ pending \in UNION {[1..n -> Entries] : n \in 0..MaxEntries}
    /\ streams = <<>>
    /\ plays = 0
    /\ shown = 0
    /\ unresolved = 0
    /\ runStream = None
    /\ runPhase = "none"
    /\ procArgs = <<>>
    /\ InitRegIdle

(* ---- JSONConnection._parse_dct: one iteration of the loop ---- *)
ParseEntry ==
    /\ pending # <<>>
    /\ pending' = Tail(pending)
    /\ LET stream == FromConfig(Head(pending)) IN
         IF stream = ParseError
         THEN /\ unresolved' = unresolved + 1
              /\ UNCHANGED <<streams, shown>>
         ELSE /\ streams' = Append(streams, stream)
              /\ UNCHANGED <<unresolved, shown>>
    /\ UNCHANGED <<appVars, regVars, plays, runStream, runPhase, procArgs>>

(* ---- PlayStreamButton.click_action ---- *)
PlayClick ==
    /\ WindowBuilt
    /\ plays < MaxPlays
    /\ plays' = plays + 1
    /\ \E url \in Urls :
         IF FromUrl(url) = ParseError
         THEN /\ unresolved' = unresolved + 1
              /\ shown' = shown + 1
         ELSE UNCHANGED <<unresolved, shown>>
    /\ UNCHANGED <<appVars, regVars, pending, streams, runStream, runPhase, procArgs>>

(* ---- StreamButton.click_action and run(), lines 218-223 ---- *)
RunSetup ==
    /\ WindowBuilt
    /\ \E i \in 1..Len(streams) :
         LET value == GetAttr(streams[i], ArgumentAttribute) IN
         /\ runStream' = streams[i]
         /\ IF value = AttributeError
            THEN /\ runPhase' = "AttributeError"
                 /\ procArgs' = <<>>
            ELSE /\ runPhase' = "loop"
                 /\ procArgs' = <<value, "best">>
    /\ UNCHANGED <<appVars, regVars, pending, streams, plays, shown, unresolved>>

NextData ==
    \/ ParseEntry
    \/ PlayClick
    \/ RunSetup

SpecData == InitData /\ [][NextData]_vars

(***************************************************************************)
(* The registry: the list of streams kept by JSONConnection, loaded at     *)
(* start-up, extended through the new-stream dialog, laid out in the main  *)
(* window and saved when the window is closed.  None of a stream (icon)    *)
(* and the empty text are both written <<>>.                               *)
(***************************************************************************)

\* RegisteredStream.__eq__
StreamEq(a, b) == full_URI(a) = full_URI(b)

\* JSONConnection.add_stream: the list after the call
AddStreamTo(list, stream) ==
    IF \E i \in DOMAIN list : StreamEq(list[i], stream)
    THEN list
    ELSE Append(list, stream)

\* JSONConnection._parse_dct: the whole loop
RECURSIVE ParseDct(_)
ParseDct(lst) ==
    IF lst = <<>> THEN <<>>
    ELSE LET stream == FromConfig(Head(lst)) IN
         IF stream = ParseError THEN ParseDct(Tail(lst))
         ELSE <<stream>> \o ParseDct(Tail(lst))

\* an as_config that would leave the icon out
AsConfig_without_icon(st) ==
    LET dct == [stream_name |-> st.stream_name, source |-> st.source] IN
    IF st.display_name # st.stream_name
    THEN dct @@ ("display_name" :> st.display_name)
    ELSE dct

\* RegisteredStream.as_config
AsConfig(st) ==
    LET dct == [stream_name |-> st.stream_name, source |-> st.source]
        named == IF st.display_name # st.stream_name
                 THEN dct @@ ("display_name" :> st.display_name)
                 ELSE dct
    IN IF st.icon # <<>> THEN named @@ ("icon" :> st.icon) ELSE named

\* RegisteredStream.from_url(url, display_name) with icon_path None
FromUrlNamed(url, display_name) ==
    LET u == LowerText(url)
        named(sname) == IF display_name = <<>> THEN sname ELSE display_name
    IN IF Contains(u, "twitch")
       THEN FromConfig([stream_name |-> SplitLast(u, "/"), source |-> "twitch",
                        display_name |-> named(SplitLast(u, "/"))])
       ELSE IF Contains(u, "youtube")
       THEN FromConfig([stream_name |-> SplitLast(u, "@"), source |-> "youtube",
                        display_name |-> named(SplitLast(u, "@"))])
       ELSE ParseError

\* MainWindow._set_layout for n streams: the cell (row, column) of each
\* button, or the error raised by the division by n_rows
SetLayout(n) ==
    LET n_rows == NRows(n) IN
    IF n_rows = 0 THEN [kind |-> "ZeroDivisionError"]
    ELSE [kind |-> "grid",
          n_rows |-> n_rows,
          n_cols |-> (n \div n_rows) + (IF n % n_rows > 0 THEN 1 ELSE 0),
          cells |-> [ind \in 0..(n - 1) |->
                        <<(ind % n_rows) + 1, ind \div n_rows>>]]

\* what the user types into the new-stream dialog
NewUrls == {<<"Twitch", "/", "a">>, <<"Twitch", "/", "b">>,
            <<"youtube", "/", "@", "a">>, <<"vimeo", "/", "a">>}
NewNames == {<<>>, <<"x">>}

\* entries of the JSON file, with and without the optional keys
FileSources == {"twitch", "youtube", "vimeo"}
FileEntries ==
    LET core == {[stream_name |-> <<"a">>, source |-> x] : x \in FileSources}
        named == core \cup {c @@ ("display_name" :> d) :
                               c \in core, d \in {<<"a">>, <<"x">>}}
    IN named \cup {c @@ ("icon" :> <<"a.png">>) : c \in named}
             \cup {[stream_name |-> <<"a">>]}

InitRegistry ==
    /\ InitApp
    /\ wait = 1
    /\ timeout = 1
    /\ InitDataIdle
    /\ adds = 0
    /\ saved \in UNION {[1..n -> FileEntries] : n \in 0..MaxEntries}
    /\ closed = TRUE
    /\ layout = [kind |-> "unbuilt"]

(* ---- JSONConnection.__init__: the program starts and reads the file ---- *)
Load ==
    /\ closed
    /\ closed' = FALSE
    /\ streams' = ParseDct(saved)
    /\ layout' = [kind |-> "unbuilt"]
    /\ UNCHANGED <<appVars, pending, plays, shown, unresolved, runStream,
                   runPhase, procArgs, adds, saved>>

(* ---- MainWindow.__init__: self._set_layout() ---- *)
BuildWindow ==
    /\ ~closed
    /\ layout.kind = "unbuilt"
    /\ layout' = SetLayout(Len(streams))
    /\ UNCHANGED <<appVars, dataVars, adds, saved, closed>>

(* ---- NewStreamButton._click_action, NewStreamDialog._parse_response ---- *)
AddStream ==
    /\ ~closed
    /\ layout.kind = "grid"
    /\ adds < MaxAdds
    /\ adds' = adds + 1
    /\ \E url \in NewUrls, display_name \in NewNames :
         LET result == FromUrlNamed(url, display_name) IN
         IF result = ParseError
         THEN UNCHANGED <<streams, layout>>
         ELSE /\ streams' = AddStreamTo(streams, result)
              /\ layout' = SetLayout(Len(streams'))
    /\ UNCHANGED <<appVars, pending, plays, shown, unresolved, runStream,
                   runPhase, procArgs, saved, closed>>

(* ---- MainWindow.closeEvent: self._connection.finish() ---- *)
CloseWindow ==
    /\ ~closed
    /\ layout.kind = "grid"
    /\ saved' = [i \in DOMAIN streams |-> AsConfig(streams[i])]
    /\ closed' = TRUE
    /\ UNCHANGED <<appVars, dataVars, adds, layout>>

NextRegistry ==
    \/ Load
    \/ BuildWindow
    \/ AddStream
    \/ CloseWindow

SpecRegistry == InitRegistry /\ [][NextRegistry]_vars

(***************************************************************************)
(* Properties                                                              *)
(***************************************************************************)
Last(s) == s[Len(s)]
Count(s, v) == Cardinality({i \in 1..Len(s) : s[i] = v})
Failed(o) == o \in {"Unavailable", "Error"}

\* C1 (as claimed): a failed-attempt notification gives up (the runner is
\* told to stop and the failure is reported) exactly when the time elapsed
\* since the run's start, read when its handling began, is at least the
\* timeout: every deadline check made decides that way, and no notification
\* whose handling began at or after the timeout is parked in the retry
\* dialog without having given up.
C1_GiveUpAtFirstLateNotification ==
    /\ lastCheck.kind = "check" =>
          (lastCheck.gaveUp <=> lastCheck.at - lastCheck.start >= timeout)
    /\ \A i \in 1..Len(stack) :
          stack[i].kind = "dialog" => stack[i].at - stack[i].start < timeout

\* C2 (as claimed): once the user has cancelled while the runner waits
\* between attempts, nothing of the wait interval remains to elapse: the
\* sleep can end at once.
C2_CancelInterruptsWait ==
    (cancel.kind = "abort" /\ cancel.pc = "sleep" /\ pc = "sleep") => now >= wakeAt

\* C3 (as claimed): once the user has cancelled while an attempt's process
\* is running, that process no longer runs and no outcome of it is reported
\* afterwards.
C3_CancelTerminatesAttempt ==
    (cancel.kind = "abort" /\ cancel.procs # {}) =>
        /\ cancel.procs \cap alive = {}
        /\ \A i \in (cancel.events + 1)..Len(trace) : trace[i] # NO_STREAM

\* C4: a stop() request made by the observer (abort or give-up) while the
\* stop flag is already set, the run being over or not, changes nothing of
\* the runner's state and emits no event (nothing is appended to the queue
\* of pending notifications; the step may consume the one it handles).
C4_StopIdempotent ==
    [][(stopCalls' > stopCalls /\ outcomes' = outcomes /\ stop)
         => /\ UNCHANGED <<runnerVars, trace>>
            /\ queue' = queue \/ queue' = Tail(queue)]_vars

\* C4 witness: the user has aborted and stop() has been called again after
\* that, on a runner whose thread has already finished.
C4_Witness ==
    /\ cancel.kind = "abort"
    /\ stopCalls >= 2
    /\ pc = "idle"

\* C5: the step that classifies an attempt as Live emits FINISHED and sets
\* the stop flag whatever the clock says, and once a run has had a Live
\* outcome no further process is started in that run.
C5_LiveSucceedsDirectly ==
    [][/\ ((outcomes' # outcomes /\ outcomes' # <<>> /\ Last(outcomes') = "Live")
             => (trace' = Append(trace, FINISHED) /\ stop'))
       /\ ((\E i \in 1..Len(outcomes) : outcomes[i] = "Live")
             => launches' = launches)]_vars

\* C5 witness: a run whose second attempt was Live, at or after the
\* deadline, has terminated.
C5_Witness ==
    /\ outcomes = <<"Unavailable", "Live">>
    /\ timeout > 0
    /\ wakeAt - wait - start_time >= timeout
    /\ pc = "idle"

\* C6 (as claimed): a terminated run whose attempts were Unavailable,
\* Unavailable, Live has emitted exactly Attempting, WaitingToRetry,
\* Attempting, WaitingToRetry, Attempting, Succeeded.
C6_FailTwiceThenLive ==
    (pc = "idle" /\ outcomes = <<"Unavailable", "Unavailable", "Live">>) =>
        trace = <<RUNNING, NO_STREAM, RUNNING, NO_STREAM, RUNNING, FINISHED>>

\* C7 (as claimed): a terminated run has emitted exactly one terminal
\* event, one event per attempt started and one event per failed attempt.
C7_OneEventPerTransition ==
    (pc = "idle" /\ trace # <<>>) =>
        /\ Count(trace, FINISHED) = 1
        /\ Count(trace, RUNNING) = Len(outcomes)
        /\ Count(trace, NO_STREAM) = Cardinality({i \in 1..Len(outcomes) : Failed(outcomes[i])})

C9_OneProcessAtATime ==
    /\ [](Cardinality(alive) <= 1)
    /\ [][launches' # launches => alive = {}]_vars

\* C9 witness: the second attempt of a run is in progress.
C9_Witness ==
    /\ Len(outcomes) = 1
    /\ launches >= 2
    /\ alive # {}

\* C10: the runner's start timestamp is the clock value at which the
\* current run began, and every deadline check uses that value plus the
\* timeout.
C10_DeadlineFromRunStart ==
    /\ start_time = runStart
    /\ lastCheck.kind = "check" => lastCheck.try_until = lastCheck.start + timeout

\* C10 witness: a deadline check has been made on a retry, some time after
\* the run began.
C10_Witness ==
    /\ lastCheck.kind = "check"
    /\ lastCheck.start = runStart
    /\ lastCheck.at > lastCheck.start
    /\ Len(outcomes) >= 2

(* ---- further property helpers ---- *)
Range(f) == {f[i] : i \in DOMAIN f}

AllError(os) == os # <<>> /\ \A i \in 1..Len(os) : os[i] = "Error"

HandlingBegins == queue # <<>> /\ queue' = Tail(queue)

\* C11 (as claimed): in a run whose attempts all ended with Error, once the
\* latest of them ended at or after the deadline and the observer has
\* nothing left to handle, the run has been told to stop (it has given up).
C11_ErrorOutcomesGiveUp ==
    ( /\ AllError(outcomes)
      /\ pc = "sleep"
      /\ (wakeAt - wait) - runStart >= timeout
      /\ queue = <<>>
      /\ stack = <<>> )
    => stop

\* C12 (as claimed): once the user has aborted the current run in the stop
\* dialog, no give-up failure is reported for that run.
C12_NoFailureAfterCancel ==
    [][cancel.kind = "abort" => reports' <= reports]_vars

\* C13 (as claimed): once a give-up has been reported for the current run,
\* no further process is launched, no RUNNING or NO_STREAM notification is
\* handled, and no second give-up is reported for that run.
C13_GivenUpIsTerminal ==
    [][reports >= 1 =>
          /\ launches' = launches
          /\ reports' <= reports
          /\ HandlingBegins => Head(queue) \notin {RUNNING, NO_STREAM}]_vars

Signal(o) == CASE o = "Unavailable" -> NO_STREAM
               [] o = "Live" -> FINISHED
               [] OTHER -> 4

\* C17 (as claimed): output with the error token is Unavailable, whether or
\* not the start token is present, output with the start token only is
\* Live, output with neither is Error; and every classified outcome is made
\* known to the observer by a notification.
C17_OutcomesDistinguished ==
    /\ [](\A d \in Outputs :
            Classify(d) = IF d.e THEN "Unavailable"
                          ELSE IF d.s THEN "Live" ELSE "Error")
    /\ [][Len(outcomes') > Len(outcomes) =>
             /\ Len(trace') = Len(trace) + 1
             /\ Last(trace') = Signal(Last(outcomes'))]_vars

\* C18 (as claimed): once stop() has been called after the thread was
\* started, no further process is launched by that thread, also when the
\* call came before run() executed its first statement.
C18_StopAfterStartHonoured ==
    [][stopReq => launches' = launches]_vars

\* C19 (as claimed): a stop() requested since the thread was started stays
\* in force until the thread has terminated, so that the loop of run() ends
\* after the attempt and the wait in progress; and the trace of a
\* terminated run starts with STARTING and ends with FINISHED.
C19_StopLeadsToTermination ==
    /\ stopReq => (stop \/ pc = "idle")
    /\ (pc = "idle" /\ trace # <<>>) =>
          /\ trace[1] = STARTING
          /\ Last(trace) = FINISHED

\* C20: at most one stop dialog is open at a time; a dialog is opened only
\* by the handling of the first NO_STREAM notification after a STARTING;
\* and once the thread has terminated and all its notifications have been
\* handled, no dialog is open and the run status is 0 again.
C20_OneDialogPerRun ==
    /\ [](Cardinality(openDlgs) <= 1)
    /\ [][dialogs' # dialogs =>
             /\ HandlingBegins
             /\ Head(queue) = NO_STREAM
             /\ nsHandled = 0
             /\ run_status = 0]_vars
    /\ []((pc = "idle" /\ queue = <<>>) => (run_status = 0 /\ openDlgs = {}))

\* C20 witness: after a first run whose dialog was closed by its final
\* FINISHED, the second run has opened a fresh dialog.
C20_Witness ==
    /\ clicks = 2
    /\ dialogs = 2
    /\ openDlgs = {2}
    /\ run_status = 2

\* C15 (as claimed): every descriptor that did not resolve has been
\* reported by an error dialog, and none of them has led to a process
\* launch or to a started run.
C15_UnresolvableReported ==
    /\ shown = unresolved
    /\ launches = 0
    /\ (runPhase # "none" => runStream \in Range(streams))

\* C16 (as claimed): once the thread of a registered stream's runner has
\* been started, run() has set the process arguments to the source's base
\* URL followed by the stream name, then "best", and has reached its loop.
C16_LaunchArguments ==
    runPhase # "none" =>
       /\ runPhase = "loop"
       /\ procArgs = <<URI_root(runStream.source) \o runStream.stream_name, "best">>

NoDuplicates(list) ==
    \A i, j \in DOMAIN list : StreamEq(list[i], list[j]) => i = j

\* C21 (as claimed): an answered new-stream dialog leaves the list as it
\* was or appends one stream whose full URI no entry had, earlier entries
\* keeping their places; and the list loaded from the file and extended by
\* add_stream never holds two entries with the same full URI.
C21_ListFreeOfDuplicates ==
    /\ [][adds' # adds =>
             \/ streams' = streams
             \/ /\ Len(streams') = Len(streams) + 1
                /\ SubSeq(streams', 1, Len(streams)) = streams
                /\ \A i \in DOMAIN streams :
                      ~StreamEq(streams[i], streams'[Len(streams')])]_vars
    /\ [](NoDuplicates(streams))

\* C22: the list written by finish() when the window is closed parses back,
\* entry by entry, to the streams it was written from (display name,
\* source, stream name and icon), and the list loaded at the next start
\* equals the list held when the window was closed.
C22_SaveReloadPreserves ==
    /\ []((closed /\ layout.kind = "grid") =>
             /\ Len(saved) = Len(streams)
             /\ \A i \in DOMAIN streams : FromConfig(saved[i]) = streams[i])
    /\ [][(closed /\ layout.kind = "grid" /\ ~closed') => streams' = streams]_vars

\* C22 witness: the program was restarted after a session in which a stream
\* was added, and the reloaded list has a stream with its own display name
\* and icon and one with neither.
C22_Witness ==
    /\ ~closed
    /\ adds >= 1
    /\ layout.kind = "unbuilt"
    /\ \E i \in DOMAIN streams :
          streams[i].display_name # streams[i].stream_name /\ streams[i].icon # <<>>
    /\ \E i \in DOMAIN streams :
          streams[i].display_name = streams[i].stream_name /\ streams[i].icon = <<>>

\* C23 (as claimed): the layout of the main window is computed without
\* error for every number of streams, with ceil(n/5) rows, and puts the
\* buttons into pairwise distinct cells with row >= 1 and column in 0..4.
C23_LayoutForEveryCount ==
    /\ layout.kind # "ZeroDivisionError"
    /\ layout.kind = "grid" =>
          /\ layout.n_rows * ButtonsPerRow >= Cardinality(DOMAIN layout.cells)
          /\ (layout.n_rows - 1) * ButtonsPerRow < Cardinality(DOMAIN layout.cells)
          /\ \A i, j \in DOMAIN layout.cells :
                layout.cells[i] = layout.cells[j] => i = j
          /\ \A i \in DOMAIN layout.cells :
                /\ layout.cells[i][1] >= 1
                /\ layout.cells[i][2] \in 0..(ButtonsPerRow - 1)

====
